---- MODULE Spec2Model ----
(***************************************************************************)
(* Model of deploy_step_function_workflow.py: update_workflow() saves the  *)
(* workflow file to S3 (save_workflow_to_s3) and then updates the stack    *)
(* through a CloudFormation change set (update_stack).                     *)
(*                                                                         *)
(* The script is sequential; pc is the position in update_workflow.  The   *)
(* remote platform (S3 and CloudFormation) is the environment: its change  *)
(* set moves through its lifecycle on its own, between the script's calls. *)
(***************************************************************************)
EXTENDS Integers, Sequences, FiniteSets, TLC

VARIABLES
    kwargs,         \* the keyword arguments given to update_workflow
    template,       \* "Parameters" of the template file: name -> "Default" | "NoDefault"
    listing,        \* the pages list_stacks returns, in NextToken order
    pc,             \* position of the script
    error,          \* the exception that ended the script, NoError while it runs
    calls,          \* every remote call issued so far, in order
    change_set_id,  \* update_stack's change_set_id (line 227)
    resp,           \* update_stack's / wait_for_change_set's resp
    sleep_time,     \* wait_for_change_set's sleep_time
    sleeps,         \* the intervals slept in the current wait_for_change_set call
    descs,          \* the descriptions received in the current wait_for_change_set call
    waitNo,         \* 0 before the first wait, then 1 (line 228) or 2 (line 251)
    first_desc,     \* what the first wait_for_change_set returned (line 228)
    changeSets,     \* the platform's change sets: id -> description
    stack,          \* the platform's stack: the change sets it has begun to apply
    history,        \* how each earlier run with these arguments ended, and the stack it left
    other           \* a second deployment running against the same platform

vars == << kwargs, template, listing, pc, error, calls, change_set_id, resp,
           sleep_time, sleeps, descs, waitNo, first_desc, changeSets, stack,
           history, other >>

----------------------------------------------------------------------------
(* Bounds of the model *)

\* how many parameters of one request may be missing, non-textual or bad
MaxDefects == 2
\* describe_change_set calls one wait_for_change_set may make
MaxPolls == 4
\* entries in a change set's Changes list
MaxChanges == 2
\* pages of a list_stacks listing
MaxPages == 3

\* how many times the script is run with the same arguments
MaxRuns == 2
\* descriptions with a Status that keeps the loop going, in one
\* wait_for_change_set call of the second deployment
MaxOtherPolls == 1

----------------------------------------------------------------------------
(* Values *)

\* kwargs.get(name, None) of an argument that was not given
None == "<None>"
\* a value that is neither str nor unicode (an int, a list, ...)
NonText == "<NonText>"

NoError == [kind |-> "none", about |-> "none"]
Err(kind, about) == [kind |-> kind, about |-> about]

\* "s3://{}/{}".format(Bucket, Key)
S3Uri(bucket, key) == << "s3://", bucket, "/", key >>

\* The environment of the main specification
ExistingBuckets == {"bucket1"}
ExistingFiles == {"hello.json", "stack.cform"}
StorageClasses == {"STANDARD", "STANDARD_IA", "ONEZONE_IA"}
StackNames == {"stack1", "stack2"}
ParamNames == {"S3Key", "SMResource", "Extra1", "Extra2"}
ResourceIds == {"MyStateMachine", "OtherResource"}

\* the keyword arguments update_workflow reads (lines 266, 270, 271)
Params == {"Bucket", "Key", "SourceFileName", "S3StorageClass", "StackName",
           "TemplateFileName", "S3KeyParameterName", "SMResourceParameterName",
           "SMResource", "Description"}

\* the values each argument is drawn from
ParamValues(p) ==
    CASE p = "Bucket" -> {None, NonText, "bucket1", "bucket2"}
      [] p = "Key" -> {None, NonText, "hello.json"}
      [] p = "SourceFileName" -> {None, NonText, "hello.json", "nofile.json"}
      [] p = "S3StorageClass" -> {None, NonText, "GLACIER"} \cup StorageClasses
      [] p = "StackName" -> {None, NonText} \cup StackNames
      [] p = "TemplateFileName" -> {None, NonText, "stack.cform", "nofile.cform"}
      [] p = "S3KeyParameterName" -> {None, NonText, "S3Key"}
      [] p = "SMResourceParameterName" -> {None, NonText, "SMResource", "S3Key"}
      [] p = "SMResource" -> {None, NonText, "MyStateMachine"}
      [] p = "Description" -> {None, "commit 1"}

\* the values of an argument that is given, textual and passes its post-checks
\* in the environment of the main specification
GoodValues(p) ==
    CASE p = "Bucket" -> ExistingBuckets
      [] p = "SourceFileName" -> {"hello.json"}
      [] p = "S3StorageClass" -> StorageClasses
      [] p = "StackName" -> {"stack1"}
      [] p = "TemplateFileName" -> {"stack.cform"}
      [] OTHER -> ParamValues(p) \ {None, NonText}

Defects(kw) == {p \in Params : kw[p] \notin GoodValues(p)}

\* the requests whose defective arguments are exactly those of D
ValuesFor(p, D) == IF p \in D THEN ParamValues(p) \ GoodValues(p) ELSE GoodValues(p)
Requests(D) ==
    [ Bucket : ValuesFor("Bucket", D),
      Key : ValuesFor("Key", D),
      SourceFileName : ValuesFor("SourceFileName", D),
      S3StorageClass : ValuesFor("S3StorageClass", D),
      StackName : ValuesFor("StackName", D),
      TemplateFileName : ValuesFor("TemplateFileName", D),
      S3KeyParameterName : ValuesFor("S3KeyParameterName", D),
      SMResourceParameterName : ValuesFor("SMResourceParameterName", D),
      SMResource : ValuesFor("SMResource", D),
      Description : ValuesFor("Description", D) ]

\* a template that declares both default parameter names, the rest defaulted
GoodTemplate ==
    [n \in ParamNames |-> IF n \in {"S3Key", "SMResource"} THEN "NoDefault" ELSE "Default"]
\* the templates of the main specification
MainTemplates ==
    { GoodTemplate,
      [n \in ParamNames |-> "NoDefault"],
      [n \in {"S3Key", "Extra1"} |-> "Default"] }
\* the stack listing of the main specification: stack1 is on the second page
MainListing == << {"stack2x"}, {"stack1"} >>

\* Changes lists of a change set: the LogicalResourceId of each entry
RECURSIVE SeqsUpTo(_, _)
SeqsUpTo(S, n) ==
    IF n = 0 THEN { <<>> }
    ELSE LET shorter == SeqsUpTo(S, n - 1)
         IN  shorter \cup { Append(q, x) : q \in shorter, x \in S }
ChangeLists == SeqsUpTo(ResourceIds, MaxChanges)

----------------------------------------------------------------------------
(* _check_parameters and the post-checks *)

\* _check_parameters: post is the outcome of the post-checks, evaluated
\* only for a textual value
check_parameters(param_name, param_value, post) ==
    IF param_value = None THEN Err("must not be None", param_name)
    ELSE IF param_value = NonText THEN Err("must be a str or unicode value", param_name)
    ELSE post

check_file_exists(param_name, param_value) ==
    IF param_value \notin ExistingFiles
    THEN Err("file does not exist", param_value)
    ELSE NoError

check_bucket_exists(param_name, param_value) ==
    IF param_value \in ExistingBuckets
    THEN NoError
    ELSE Err("bucket does not exist", param_value)

check_storage_class(param_name, param_value) ==
    IF param_value \notin StorageClasses
    THEN Err("must be one of STANDARD|STANDARD_IA|ONEZONE_IA", param_name)
    ELSE NoError

----------------------------------------------------------------------------
(* check_stack_exists_and_updatable (lines 152-165) *)

\* variant with a fault: the loop never follows NextToken
StackSearchFirstPage(pages, i, param_value) ==
    [found |-> param_value \in pages[i], fetched |-> i]

\* The while loop from page i on: found says whether the loop returned,
\* fetched is the number of list_stacks calls made. A page has a NextToken
\* exactly when another page follows it.
RECURSIVE StackSearch(_, _, _)
StackSearch(pages, i, param_value) ==
    IF param_value \in pages[i]
    THEN [found |-> TRUE, fetched |-> i]
    ELSE IF i < Len(pages)
         THEN StackSearch(pages, i + 1, param_value)
         ELSE [found |-> FALSE, fetched |-> i]

check_stack_exists_and_updatable(pages, param_value) ==
    IF StackSearch(pages, 1, param_value).found
    THEN NoError
    ELSE Err("stack does not exist or is not ready for update", param_value)

----------------------------------------------------------------------------
(* check_template_params_exist (lines 167-180) *)

Remove(tp, n) == [k \in DOMAIN tp \ {n} |-> tp[k]]

\* variant with a fault: the defaults of the other parameters are not looked at
TemplateParamsNoDefaultCheck(tp, param_value, p1, p2) ==
    IF p1 = None THEN Err("KeyError", "S3KeyParameterName")
    ELSE IF p2 = None THEN Err("KeyError", "SMResourceParameterName")
    ELSE IF p1 \notin DOMAIN tp THEN Err("parameter not present in template", p1)
    ELSE IF p2 \notin DOMAIN Remove(tp, p1)
         THEN Err("parameter not present in template", p2)
         ELSE NoError

\* tp is template.get("Parameters", {}); p1 and p2 are
\* kwargs["S3KeyParameterName"] and kwargs["SMResourceParameterName"], read
\* before _check_parameters has seen them (line 196 runs before 197 and 199)
check_template_params_exist(tp, param_value, p1, p2) ==
    IF p1 = None THEN Err("KeyError", "S3KeyParameterName")
    ELSE IF p2 = None THEN Err("KeyError", "SMResourceParameterName")
    ELSE IF p1 \notin DOMAIN tp THEN Err("parameter not present in template", p1)
    ELSE LET tp1 == Remove(tp, p1)
         IN  IF p2 \notin DOMAIN tp1 THEN Err("parameter not present in template", p2)
             ELSE LET tp2 == Remove(tp1, p2)
                  IN  IF \E k \in DOMAIN tp2 : tp2[k] = "NoDefault"
                      THEN Err("additional parameters without defaults", param_value)
                      ELSE NoError

\* the second deployment before it has started
OtherIdle == [pc |-> "idle", change_set_id |-> 0, calls |-> << >>, polls |-> 0]

----------------------------------------------------------------------------
(* Init *)

Init ==
    /\ \E D \in { X \in SUBSET Params : Cardinality(X) <= MaxDefects } :
           kwargs \in Requests(D)
    /\ template \in MainTemplates
    /\ listing = MainListing
    /\ pc = "Bucket"
    /\ error = NoError
    /\ calls = << >>
    /\ change_set_id = 0
    /\ resp = NoError
    /\ sleep_time = 0
    /\ sleeps = << >>
    /\ descs = << >>
    /\ waitNo = 0
    /\ first_desc = NoError
    /\ changeSets = << >>
    /\ stack = << >>
    /\ history = << >>
    /\ other = OtherIdle

----------------------------------------------------------------------------
(* The platform's change sets *)

\* the statuses after which wait_for_change_set stops polling (line 185)
WaitTerminal == {"CREATE_COMPLETE", "FAILED"}

\* what describe_change_set returns of a change set
Description(cs) ==
    [Status |-> cs.Status, ExecutionStatus |-> cs.ExecutionStatus, Changes |-> cs.Changes]

NewChangeSet ==
    [Status |-> "CREATING", ExecutionStatus |-> "UNAVAILABLE", Changes |-> << >>,
     executed |-> FALSE]

\* CREATING -> CREATE_COMPLETE | FAILED
PlatformCreated(id) ==
    /\ id \in DOMAIN changeSets
    /\ changeSets[id].Status = "CREATING"
    /\ \E ok \in BOOLEAN, ch \in ChangeLists :
           changeSets' = [changeSets EXCEPT ![id] =
               [@ EXCEPT !.Status = IF ok THEN "CREATE_COMPLETE" ELSE "FAILED",
                         !.ExecutionStatus = IF ok THEN "AVAILABLE" ELSE "UNAVAILABLE",
                         !.Changes = ch]]
    /\ UNCHANGED << stack, history, other >>
    /\ UNCHANGED << kwargs, template, listing, pc, error, calls, change_set_id, resp,
                    sleep_time, sleeps, descs, waitNo, first_desc >>

\* an executed change set starts executing; the description's Status may
\* show it at once or still read CREATE_COMPLETE
PlatformExecuting(id) ==
    /\ id \in DOMAIN changeSets
    /\ changeSets[id].executed
    /\ changeSets[id].ExecutionStatus = "AVAILABLE"
    /\ changeSets[id].Status = "CREATE_COMPLETE"
    /\ \E st \in {"CREATE_COMPLETE", "EXECUTING"} :
           changeSets' = [changeSets EXCEPT ![id] =
               [@ EXCEPT !.Status = st, !.ExecutionStatus = "EXECUTING"]]
    /\ stack' = Append(stack, id)
    /\ UNCHANGED << history, other >>
    /\ UNCHANGED << kwargs, template, listing, pc, error, calls, change_set_id, resp,
                    sleep_time, sleeps, descs, waitNo, first_desc >>

\* EXECUTING -> EXECUTE_COMPLETE | FAILED
PlatformExecuted(id) ==
    /\ id \in DOMAIN changeSets
    /\ changeSets[id].ExecutionStatus = "EXECUTING"
    /\ \E ok \in BOOLEAN :
           changeSets' = [changeSets EXCEPT ![id] =
               [@ EXCEPT !.Status = IF ok THEN "EXECUTE_COMPLETE" ELSE "FAILED",
                         !.ExecutionStatus = IF ok THEN "AVAILABLE" ELSE "EXECUTE_FAILED"]]
    /\ UNCHANGED << stack, history, other >>
    /\ UNCHANGED << kwargs, template, listing, pc, error, calls, change_set_id, resp,
                    sleep_time, sleeps, descs, waitNo, first_desc >>

----------------------------------------------------------------------------
(* save_workflow_to_s3 (lines 111-127) *)

Call(op) == [op |-> op]

Raise(e) ==
    /\ pc' = "failed"
    /\ error' = e

\* one _check_parameters call of the script: e is what it raises, if anything
CheckStep(e, next) ==
    IF e = NoError
    THEN pc' = next /\ error' = error
    ELSE Raise(e)

\* line 115; check_bucket_exists lists the buckets (line 101)
CheckBucket ==
    /\ pc = "Bucket"
    /\ CheckStep(check_parameters("Bucket", kwargs.Bucket,
                    check_bucket_exists("Bucket", kwargs.Bucket)), "Key")
    /\ calls' = IF kwargs.Bucket \in {None, NonText}
                THEN calls
                ELSE Append(calls, Call("list_buckets"))
    /\ UNCHANGED << stack, history, other >>
    /\ UNCHANGED << kwargs, template, listing, change_set_id, resp, sleep_time,
                    sleeps, descs, waitNo, first_desc, changeSets >>

\* line 116
CheckKey ==
    /\ pc = "Key"
    /\ CheckStep(check_parameters("Key", kwargs.Key, NoError), "SourceFileName")
    /\ UNCHANGED << stack, history, other >>
    /\ UNCHANGED << kwargs, template, listing, calls, change_set_id, resp, sleep_time,
                    sleeps, descs, waitNo, first_desc, changeSets >>

\* line 117
CheckSourceFileName ==
    /\ pc = "SourceFileName"
    /\ CheckStep(check_parameters("SourceFileName", kwargs.SourceFileName,
                    check_file_exists("SourceFileName", kwargs.SourceFileName)),
                 "S3StorageClass")
    /\ UNCHANGED << stack, history, other >>
    /\ UNCHANGED << kwargs, template, listing, calls, change_set_id, resp, sleep_time,
                    sleeps, descs, waitNo, first_desc, changeSets >>

\* line 118
CheckS3StorageClass ==
    /\ pc = "S3StorageClass"
    /\ CheckStep(check_parameters("S3StorageClass", kwargs.S3StorageClass,
                    check_storage_class("S3StorageClass", kwargs.S3StorageClass)),
                 "put_object")
    /\ UNCHANGED << stack, history, other >>
    /\ UNCHANGED << kwargs, template, listing, calls, change_set_id, resp, sleep_time,
                    sleeps, descs, waitNo, first_desc, changeSets >>

\* the arguments of the put_object call (lines 122-127)
PutObjectCall(kw) ==
    [op |-> "put_object", Bucket |-> kw.Bucket, Key |-> kw.Key,
     ContentType |-> "application/json", StorageClass |-> "STANDARD"]

\* variant with a fault: the exception of put_object is caught and the
\* script goes on
PutObjectFailureIgnored ==
    /\ pc = "put_object"
    /\ calls' = Append(calls, PutObjectCall(kwargs))
    /\ pc' = "StackName"
    /\ \E ok \in BOOLEAN :
           error' = IF ok THEN error ELSE Err("remote call failed", "put_object")
    /\ UNCHANGED << stack, history, other >>
    /\ UNCHANGED << kwargs, template, listing, change_set_id, resp, sleep_time,
                    sleeps, descs, waitNo, first_desc, changeSets >>

\* lines 121-127; the call may fail, and its exception ends the script
PutObject ==
    /\ pc = "put_object"
    /\ calls' = Append(calls, PutObjectCall(kwargs))
    /\ \E ok \in BOOLEAN :
           IF ok THEN pc' = "StackName" /\ error' = error
                 ELSE Raise(Err("remote call failed", "put_object"))
    /\ UNCHANGED << stack, history, other >>
    /\ UNCHANGED << kwargs, template, listing, change_set_id, resp, sleep_time,
                    sleeps, descs, waitNo, first_desc, changeSets >>

----------------------------------------------------------------------------
(* update_stack (lines 191-259), called with update_kwargs (lines 270-272) *)

\* line 195; check_stack_exists_and_updatable makes one list_stacks call
\* for each page it reads
CheckStackName ==
    /\ pc = "StackName"
    /\ CheckStep(check_parameters("StackName", kwargs.StackName,
                    check_stack_exists_and_updatable(listing, kwargs.StackName)),
                 "TemplateFileName")
    /\ calls' = IF kwargs.StackName \in {None, NonText}
                THEN calls
                ELSE calls \o [i \in 1..StackSearch(listing, 1, kwargs.StackName).fetched
                                 |-> Call("list_stacks")]
    /\ UNCHANGED << stack, history, other >>
    /\ UNCHANGED << kwargs, template, listing, change_set_id, resp, sleep_time,
                    sleeps, descs, waitNo, first_desc, changeSets >>

\* the post-checks of TemplateFileName, in the order of the list (line 196)
TemplatePostChecks(kw, tp) ==
    LET e == check_file_exists("TemplateFileName", kw.TemplateFileName)
    IN  IF e # NoError THEN e
        ELSE check_template_params_exist(tp, kw.TemplateFileName,
                 kw.S3KeyParameterName, kw.SMResourceParameterName)

\* line 196
CheckTemplateFileName ==
    /\ pc = "TemplateFileName"
    /\ CheckStep(check_parameters("TemplateFileName", kwargs.TemplateFileName,
                    TemplatePostChecks(kwargs, template)),
                 "S3KeyParameterName")
    /\ UNCHANGED << stack, history, other >>
    /\ UNCHANGED << kwargs, template, listing, calls, change_set_id, resp, sleep_time,
                    sleeps, descs, waitNo, first_desc, changeSets >>

\* line 197
CheckS3KeyParameterName ==
    /\ pc = "S3KeyParameterName"
    /\ CheckStep(check_parameters("S3KeyParameterName", kwargs.S3KeyParameterName,
                    NoError), "S3Key")
    /\ UNCHANGED << stack, history, other >>
    /\ UNCHANGED << kwargs, template, listing, calls, change_set_id, resp, sleep_time,
                    sleeps, descs, waitNo, first_desc, changeSets >>

\* line 198; S3Key is the string update_workflow built at line 271
CheckS3Key ==
    /\ pc = "S3Key"
    /\ CheckStep(check_parameters("S3Key", S3Uri(kwargs.Bucket, kwargs.Key), NoError),
                 "SMResourceParameterName")
    /\ UNCHANGED << stack, history, other >>
    /\ UNCHANGED << kwargs, template, listing, calls, change_set_id, resp, sleep_time,
                    sleeps, descs, waitNo, first_desc, changeSets >>

\* line 199
CheckSMResourceParameterName ==
    /\ pc = "SMResourceParameterName"
    /\ CheckStep(check_parameters("SMResourceParameterName",
                    kwargs.SMResourceParameterName, NoError), "SMResource")
    /\ UNCHANGED << stack, history, other >>
    /\ UNCHANGED << kwargs, template, listing, calls, change_set_id, resp, sleep_time,
                    sleeps, descs, waitNo, first_desc, changeSets >>

\* line 200
CheckSMResource ==
    /\ pc = "SMResource"
    /\ CheckStep(check_parameters("SMResource", kwargs.SMResource, NoError),
                 "create_change_set")
    /\ UNCHANGED << stack, history, other >>
    /\ UNCHANGED << kwargs, template, listing, calls, change_set_id, resp, sleep_time,
                    sleeps, descs, waitNo, first_desc, changeSets >>

\* variant with a fault: Bucket and Key change places in the uri
CreateChangeSetCallSwapped(kw) ==
    [op |-> "create_change_set",
     StackName |-> kw.StackName,
     Parameters |-> << [ParameterKey |-> kw.S3KeyParameterName,
                        ParameterValue |-> S3Uri(kw.Key, kw.Bucket)],
                       [ParameterKey |-> kw.SMResourceParameterName,
                        ParameterValue |-> kw.SMResource] >>,
     Description |-> kw.Description,
     ChangeSetType |-> "UPDATE"]

\* the arguments of the create_change_set call (lines 205-223)
CreateChangeSetCall(kw) ==
    [op |-> "create_change_set",
     StackName |-> kw.StackName,
     Parameters |-> << [ParameterKey |-> kw.S3KeyParameterName,
                        ParameterValue |-> S3Uri(kw.Bucket, kw.Key)],
                       [ParameterKey |-> kw.SMResourceParameterName,
                        ParameterValue |-> kw.SMResource] >>,
     Description |-> kw.Description,
     ChangeSetType |-> "UPDATE"]

\* lines 204-227. kwargs["Description"] raises KeyError when no Description
\* was given, before the call is made. The call may fail; when it succeeds
\* the platform holds a new change set, whose Id is change_set_id.
CreateChangeSet ==
    /\ pc = "create_change_set"
    /\ IF kwargs.Description = None
       THEN /\ Raise(Err("KeyError", "Description"))
            /\ UNCHANGED << calls, changeSets, change_set_id, waitNo >>
       ELSE /\ calls' = Append(calls, CreateChangeSetCall(kwargs))
            /\ \E ok \in BOOLEAN :
                  IF ok
                  THEN /\ changeSets' = Append(changeSets, NewChangeSet)
                       /\ change_set_id' = Len(changeSets) + 1
                       /\ waitNo' = 1
                       /\ pc' = "wait_describe"
                       /\ error' = error
                  ELSE /\ Raise(Err("remote call failed", "create_change_set"))
                       /\ UNCHANGED << changeSets, change_set_id, waitNo >>
    /\ UNCHANGED << stack, history, other >>
    /\ UNCHANGED << kwargs, template, listing, resp, sleep_time, sleeps, descs,
                    first_desc >>

\* variant with a fault: the most recent change set of the platform is
\* described, not the one of the given id
DescribeLatest(id) == [op |-> "describe_change_set", ChangeSetName |-> Len(changeSets)]

DescribeCall(id) == [op |-> "describe_change_set", ChangeSetName |-> id]

\* variant with a fault: sleep_time outlives the call, so the second wait
\* goes on from the interval the first wait had reached
WaitDescribeKeepsInterval ==
    /\ pc = "wait_describe"
    /\ calls' = Append(calls, DescribeCall(change_set_id))
    /\ resp' = Description(changeSets[change_set_id])
    /\ sleep_time' = IF waitNo = 1 THEN 2 ELSE sleep_time
    /\ sleeps' = << >>
    /\ descs' = << Description(changeSets[change_set_id]) >>
    /\ pc' = "wait_loop"
    /\ UNCHANGED << stack, history, other >>
    /\ UNCHANGED << kwargs, template, listing, error, change_set_id, waitNo,
                    first_desc, changeSets >>

\* lines 183-184: the first describe_change_set of a wait_for_change_set call
WaitDescribe ==
    /\ pc = "wait_describe"
    /\ calls' = Append(calls, DescribeCall(change_set_id))
    /\ resp' = Description(changeSets[change_set_id])
    /\ sleep_time' = 2
    /\ sleeps' = << >>
    /\ descs' = << Description(changeSets[change_set_id]) >>
    /\ pc' = "wait_loop"
    /\ UNCHANGED << stack, history, other >>
    /\ UNCHANGED << kwargs, template, listing, error, change_set_id, waitNo,
                    first_desc, changeSets >>

\* whether the while loop of line 185 goes round again
WaitContinues(r) == r.Status \notin WaitTerminal

\* variant with a fault: the interval grows by a constant step
LinearSleepTime(t) == t + 2

\* sleep_time = sleep_time * 2 (line 187)
NextSleepTime(t) == t * 2

\* lines 185-188: one turn of the loop: sleep, double the interval, describe
WaitLoop ==
    /\ pc = "wait_loop"
    /\ WaitContinues(resp)
    /\ Len(descs) < MaxPolls
    /\ sleeps' = Append(sleeps, sleep_time)
    /\ sleep_time' = NextSleepTime(sleep_time)
    /\ calls' = Append(calls, DescribeCall(change_set_id))
    /\ resp' = Description(changeSets[change_set_id])
    /\ descs' = Append(descs, Description(changeSets[change_set_id]))
    /\ UNCHANGED << stack, history, other >>
    /\ UNCHANGED << kwargs, template, listing, pc, error, change_set_id, waitNo,
                    first_desc, changeSets >>

\* variant with a fault: the change set is executed after the first wait and
\* validated after the second
WaitReturnValidatesLate ==
    /\ pc = "wait_loop"
    /\ ~WaitContinues(resp)
    /\ pc' = IF waitNo = 1 THEN "execute_change_set" ELSE "validate"
    /\ first_desc' = resp
    /\ UNCHANGED << stack, history, other >>
    /\ UNCHANGED << kwargs, template, listing, error, calls, change_set_id, resp,
                    sleep_time, sleeps, descs, waitNo, changeSets >>

\* lines 185 and 189: the loop ends and resp is returned, to line 228 or 251
WaitReturn ==
    /\ pc = "wait_loop"
    /\ ~WaitContinues(resp)
    /\ pc' = IF waitNo = 1 THEN "validate" ELSE "final"
    /\ first_desc' = IF waitNo = 1 THEN resp ELSE first_desc
    /\ UNCHANGED << stack, history, other >>
    /\ UNCHANGED << kwargs, template, listing, error, calls, change_set_id, resp,
                    sleep_time, sleeps, descs, waitNo, changeSets >>

\* variant with a fault: any change counts as the required one
AnyChange(changes, smResource) == Len(changes) > 0

\* lines 236-241: the scan of resp['Changes']
FoundRequiredChange(changes, smResource) ==
    \E i \in 1..Len(changes) : changes[i] = smResource

\* variant with a fault: the Status of the created change set is not looked at
ValidateChangesOnly(r, smResource) ==
    IF ~FoundRequiredChange(r.Changes, smResource)
    THEN Err("ChangeSet does not modify StateMachine", smResource)
    ELSE NoError

\* variant with a fault: the Changes of the created change set are not
\* looked at
ValidateStatusOnly(r, smResource) ==
    IF r.Status = "FAILED" THEN Err("ChangeSet creation FAILED", "create")
    ELSE NoError

\* lines 233-244: what the validation of the created change set raises
ValidateChangeSet(r, smResource) ==
    IF r.Status = "FAILED" THEN Err("ChangeSet creation FAILED", "create")
    ELSE IF ~FoundRequiredChange(r.Changes, smResource)
         THEN Err("ChangeSet does not modify StateMachine", smResource)
         ELSE NoError

\* lines 230-244
Validate ==
    /\ pc = "validate"
    /\ CheckStep(ValidateChangeSet(resp, kwargs.SMResource), "execute_change_set")
    /\ UNCHANGED << stack, history, other >>
    /\ UNCHANGED << kwargs, template, listing, calls, change_set_id, resp, sleep_time,
                    sleeps, descs, waitNo, first_desc, changeSets >>

ExecuteCall(id) == [op |-> "execute_change_set", ChangeSetName |-> id]

\* variant with a fault: a failed execute_change_set call is tried again
ExecuteChangeSetRetried ==
    /\ pc = "execute_change_set"
    /\ calls' = Append(calls, ExecuteCall(change_set_id))
    /\ \E ok \in BOOLEAN :
          IF ok
          THEN /\ changeSets' = [changeSets EXCEPT ![change_set_id].executed = TRUE]
               /\ waitNo' = 2
               /\ pc' = "wait_describe"
          ELSE /\ pc' = pc
               /\ UNCHANGED << changeSets, waitNo >>
    /\ UNCHANGED << stack, history, other, error >>
    /\ UNCHANGED << kwargs, template, listing, change_set_id, resp, sleep_time,
                    sleeps, descs, first_desc >>

\* lines 246-248; the call may fail, otherwise the platform will execute
\* the change set
ExecuteChangeSet ==
    /\ pc = "execute_change_set"
    /\ calls' = Append(calls, ExecuteCall(change_set_id))
    /\ \E ok \in BOOLEAN :
          IF ok
          THEN /\ changeSets' = [changeSets EXCEPT ![change_set_id].executed = TRUE]
               /\ waitNo' = 2
               /\ pc' = "wait_describe"
               /\ error' = error
          ELSE /\ Raise(Err("remote call failed", "execute_change_set"))
               /\ UNCHANGED << changeSets, waitNo >>
    /\ UNCHANGED << stack, history, other >>
    /\ UNCHANGED << kwargs, template, listing, change_set_id, resp, sleep_time,
                    sleeps, descs, first_desc >>

\* variant with a fault: ExecutionStatus is not looked at
FinalCheckStatusOnly(r) ==
    IF r.Status = "FAILED" THEN Err("ChangeSet execution FAILED", "execute")
    ELSE NoError

\* lines 253-257: what the check after the second wait raises
FinalCheck(r) ==
    IF r.Status = "FAILED" THEN Err("ChangeSet execution FAILED", "execute")
    ELSE IF r.ExecutionStatus # "AVAILABLE"
         THEN Err("ChangeSet execution status", r.ExecutionStatus)
         ELSE NoError

\* lines 253-259
Final ==
    /\ pc = "final"
    /\ CheckStep(FinalCheck(resp), "done")
    /\ UNCHANGED << stack, history, other >>
    /\ UNCHANGED << kwargs, template, listing, calls, change_set_id, resp, sleep_time,
                    sleeps, descs, waitNo, first_desc, changeSets >>

----------------------------------------------------------------------------
(* __main__ (lines 274-299): the script is started again *)

\* the platform has nothing left to do with this change set
Settled(cs) ==
    /\ cs.Status # "CREATING"
    /\ cs.ExecutionStatus # "EXECUTING"
    /\ ~(cs.executed /\ cs.Status = "CREATE_COMPLETE" /\ cs.ExecutionStatus = "AVAILABLE")

\* once a run has ended and the platform has come to rest, the script is run
\* again with the same arguments; every local of the earlier run is gone, the
\* platform keeps its state
Rerun ==
    /\ pc \in {"done", "failed"}
    /\ \A id \in DOMAIN changeSets : Settled(changeSets[id])
    /\ Len(history) + 1 < MaxRuns
    /\ history' = Append(history, [pc |-> pc, stack |-> stack,
                                   change_set_id |-> change_set_id])
    /\ pc' = "Bucket"
    /\ error' = NoError
    /\ calls' = << >>
    /\ change_set_id' = 0
    /\ resp' = NoError
    /\ sleep_time' = 0
    /\ sleeps' = << >>
    /\ descs' = << >>
    /\ waitNo' = 0
    /\ first_desc' = NoError
    /\ UNCHANGED << kwargs, template, listing, changeSets, stack, other >>

----------------------------------------------------------------------------
(* A second deployment on the same platform: another invocation of         *)
(* update_stack (lines 191-248) with the same arguments, followed through   *)
(* its calls on change sets up to its execute_change_set call               *)

OtherFrame ==
    UNCHANGED << kwargs, template, listing, pc, error, calls, change_set_id, resp,
                 sleep_time, sleeps, descs, waitNo, first_desc, stack, history >>

\* lines 205-227: its create_change_set call and the Id it is given
OtherCreateChangeSet ==
    /\ other.pc = "idle"
    /\ changeSets' = Append(changeSets, NewChangeSet)
    /\ other' = [other EXCEPT !.pc = "wait1",
                              !.change_set_id = Len(changeSets) + 1,
                              !.calls = Append(@, CreateChangeSetCall(kwargs))]
    /\ OtherFrame

\* lines 183-189: one describe_change_set of its first wait; the wait
\* returns when the Status read is one of WaitTerminal
OtherDescribe ==
    /\ other.pc = "wait1"
    /\ LET r == Description(changeSets[other.change_set_id])
       IN  /\ WaitContinues(r) => other.polls < MaxOtherPolls
           /\ other' = [other EXCEPT
                         !.calls = Append(@, DescribeCall(other.change_set_id)),
                         !.polls = IF WaitContinues(r) THEN @ + 1 ELSE 0,
                         !.pc = IF WaitContinues(r) THEN @ ELSE "validate"]
    /\ UNCHANGED changeSets
    /\ OtherFrame

\* lines 230-248: it stops on the validation of its change set, or executes it
OtherExecuteChangeSet ==
    /\ other.pc = "validate"
    /\ LET r == Description(changeSets[other.change_set_id])
       IN  IF ValidateChangeSet(r, kwargs.SMResource) # NoError
           THEN /\ other' = [other EXCEPT !.pc = "end"]
                /\ UNCHANGED changeSets
           ELSE /\ other' = [other EXCEPT
                               !.pc = "end",
                               !.calls = Append(@, ExecuteCall(other.change_set_id))]
                /\ changeSets' =
                      [changeSets EXCEPT ![other.change_set_id].executed = TRUE]
    /\ OtherFrame

----------------------------------------------------------------------------
(* The specification *)

Next ==
    \/ CheckBucket
    \/ CheckKey
    \/ CheckSourceFileName
    \/ CheckS3StorageClass
    \/ PutObject
    \/ CheckStackName
    \/ CheckTemplateFileName
    \/ CheckS3KeyParameterName
    \/ CheckS3Key
    \/ CheckSMResourceParameterName
    \/ CheckSMResource
    \/ CreateChangeSet
    \/ WaitDescribe
    \/ WaitLoop
    \/ WaitReturn
    \/ Validate
    \/ ExecuteChangeSet
    \/ Final
    \/ Rerun
    \/ \E id \in DOMAIN changeSets : PlatformCreated(id)
    \/ \E id \in DOMAIN changeSets : PlatformExecuting(id)
    \/ \E id \in DOMAIN changeSets : PlatformExecuted(id)

Spec == Init /\ [][Next]_vars

----------------------------------------------------------------------------
(* Two deployments at once: a run with valid arguments, and the second     *)
(* deployment taking its steps in between                                   *)

\* the arguments of the command line of the README, the defaults of lines
\* 280-286 for the rest
ValidRequest ==
    [ Bucket |-> "bucket1",
      Key |-> "hello.json",
      SourceFileName |-> "hello.json",
      S3StorageClass |-> "STANDARD",
      StackName |-> "stack1",
      TemplateFileName |-> "stack.cform",
      S3KeyParameterName |-> "S3Key",
      SMResourceParameterName |-> "SMResource",
      SMResource |-> "MyStateMachine",
      Description |-> "commit 1" ]

InitTwo ==
    /\ kwargs = ValidRequest
    /\ template = GoodTemplate
    /\ listing = MainListing
    /\ pc = "Bucket"
    /\ error = NoError
    /\ calls = << >>
    /\ change_set_id = 0
    /\ resp = NoError
    /\ sleep_time = 0
    /\ sleeps = << >>
    /\ descs = << >>
    /\ waitNo = 0
    /\ first_desc = NoError
    /\ changeSets = << >>
    /\ stack = << >>
    /\ history = << >>
    /\ other = OtherIdle

\* the steps of one run, of the platform and of the second deployment
NextTwo ==
    \/ CheckBucket
    \/ CheckKey
    \/ CheckSourceFileName
    \/ CheckS3StorageClass
    \/ PutObject
    \/ CheckStackName
    \/ CheckTemplateFileName
    \/ CheckS3KeyParameterName
    \/ CheckS3Key
    \/ CheckSMResourceParameterName
    \/ CheckSMResource
    \/ CreateChangeSet
    \/ WaitDescribe
    \/ WaitLoop
    \/ WaitReturn
    \/ Validate
    \/ ExecuteChangeSet
    \/ Final
    \/ \E id \in DOMAIN changeSets : PlatformCreated(id)
    \/ \E id \in DOMAIN changeSets : PlatformExecuting(id)
    \/ \E id \in DOMAIN changeSets : PlatformExecuted(id)
    \/ OtherCreateChangeSet
    \/ OtherDescribe
    \/ OtherExecuteChangeSet

SpecTwo == InitTwo /\ [][NextTwo]_vars

----------------------------------------------------------------------------
(* check_stack_exists_and_updatable on its own: update_stack is entered   *)
(* after a successful save, against any listing of up to MaxPages pages.  *)

PageLists == SeqsUpTo(SUBSET StackNames, MaxPages) \ { << >> }

\* the calls save_workflow_to_s3 has made when it returns
SaveCalls(kw) == << Call("list_buckets"), PutObjectCall(kw) >>

InitStack ==
    /\ kwargs \in { [kw EXCEPT !.StackName = n] : kw \in Requests({}), n \in StackNames }
    /\ template = GoodTemplate
    /\ listing \in PageLists
    /\ pc = "StackName"
    /\ error = NoError
    /\ calls = SaveCalls(kwargs)
    /\ change_set_id = 0
    /\ resp = NoError
    /\ sleep_time = 0
    /\ sleeps = << >>
    /\ descs = << >>
    /\ waitNo = 0
    /\ first_desc = NoError
    /\ changeSets = << >>
    /\ stack = << >>
    /\ history = << >>
    /\ other = OtherIdle

SpecStack == InitStack /\ [][CheckStackName]_vars

----------------------------------------------------------------------------
(* check_template_params_exist on its own: the check of TemplateFileName  *)
(* (line 196) against any template over ParamNames and any two textual    *)
(* parameter names.                                                       *)

Templates == UNION { [D -> {"Default", "NoDefault"}] : D \in SUBSET ParamNames }

InitTemplate ==
    /\ kwargs \in { [kw EXCEPT !.S3KeyParameterName = a, !.SMResourceParameterName = b] :
                       kw \in Requests({}), a \in ParamNames, b \in ParamNames }
    /\ template \in Templates
    /\ listing = MainListing
    /\ pc = "TemplateFileName"
    /\ error = NoError
    /\ calls = SaveCalls(kwargs) \o << Call("list_stacks"), Call("list_stacks") >>
    /\ change_set_id = 0
    /\ resp = NoError
    /\ sleep_time = 0
    /\ sleeps = << >>
    /\ descs = << >>
    /\ waitNo = 0
    /\ first_desc = NoError
    /\ changeSets = << >>
    /\ stack = << >>
    /\ history = << >>
    /\ other = OtherIdle

SpecTemplate == InitTemplate /\ [][CheckTemplateFileName]_vars

----------------------------------------------------------------------------
(* Properties *)

Issued(op) == \E i \in 1..Len(calls) : calls[i].op = op

MutatingOps == {"put_object", "create_change_set", "execute_change_set"}

RECURSIVE Pow2(_)
Pow2(n) == IF n = 0 THEN 1 ELSE 2 * Pow2(n - 1)

\* the first wait has returned and the validation of lines 230-244 has run
Validated == first_desc # NoError /\ pc # "validate"

HasMatch(changes, id) == \E j \in 1..Len(changes) : changes[j] = id

\* C1 as stated: execute_change_set is called only if the first wait's
\* description has a Status other than FAILED and lists a change of
\* SMResource, and whenever the Changes list is empty the deployment aborts
\* with the scope error without calling execute_change_set.
C1_Original ==
    /\ Issued("execute_change_set") =>
          /\ first_desc # NoError
          /\ first_desc.Status # "FAILED"
          /\ HasMatch(first_desc.Changes, kwargs.SMResource)
    /\ (Validated /\ first_desc.Changes = << >>) =>
          /\ pc = "failed"
          /\ error.kind = "ChangeSet does not modify StateMachine"
          /\ ~Issued("execute_change_set")

\* C1 as amended: execute_change_set is called only if the first wait's
\* description has a Status other than FAILED and lists a change of
\* SMResource; when the Changes list is empty the deployment aborts without
\* calling execute_change_set, with the creation error if the Status is
\* FAILED and with the scope error otherwise.
C1_ExecuteOnlyAfterGate ==
    /\ Issued("execute_change_set") =>
          /\ first_desc # NoError
          /\ first_desc.Status # "FAILED"
          /\ HasMatch(first_desc.Changes, kwargs.SMResource)
    /\ (Validated /\ first_desc.Changes = << >>) =>
          /\ pc = "failed"
          /\ error.kind = IF first_desc.Status = "FAILED"
                          THEN "ChangeSet creation FAILED"
                          ELSE "ChangeSet does not modify StateMachine"
          /\ ~Issued("execute_change_set")

\* an empty Changes list with Status CREATE_COMPLETE was rejected
C1_Witness ==
    /\ Validated
    /\ first_desc.Changes = << >>
    /\ first_desc.Status = "CREATE_COMPLETE"
    /\ pc = "failed"

StackAbsent(kw, pages) ==
    /\ kw.StackName \notin {None, NonText}
    /\ \A i \in 1..Len(pages) : kw.StackName \notin pages[i]

\* C2: when the target stack is on no page of the listing and the deployment
\* aborts with the stack error, no put_object has been issued before.
C2_NoWriteWhenStackAbsent ==
    (/\ StackAbsent(kwargs, listing)
     /\ pc = "failed"
     /\ error.kind = "stack does not exist or is not ready for update")
    => ~Issued("put_object")

\* the parameters C3 and C4 name
CheckedParams == Params \ {"Description"}

\* C3: when some parameter is missing, non-textual or fails a post-check and
\* the deployment aborts on a check, no mutating remote call has been issued
\* before.
C3_NoMutationOnBadParameter ==
    (/\ \E p \in CheckedParams : kwargs[p] \notin GoodValues(p)
     /\ pc = "failed"
     /\ error.kind # "remote call failed")
    => \A op \in MutatingOps : ~Issued(op)

\* C4: when one parameter is missing or non-textual and every other one is
\* valid, the deployment does not succeed, and unless a remote call failed
\* first it ends with the validation error naming that parameter.
C4_ErrorNamesParameter ==
    \A p \in CheckedParams :
        (/\ kwargs[p] \in {None, NonText}
         /\ Defects(kwargs) = {p}
         /\ template = GoodTemplate
         /\ pc \in {"failed", "done"}
         /\ error.kind # "remote call failed")
        => error = Err(IF kwargs[p] = None THEN "must not be None"
                       ELSE "must be a str or unicode value", p)

\* the second wait has returned and the check of lines 253-257 has run
Finished == waitNo = 2 /\ pc \in {"done", "failed"}

\* C5: after the second wait, update_stack fails with the execution error
\* if the returned Status is FAILED, otherwise with the execution-state
\* error if ExecutionStatus is not AVAILABLE, and succeeds exactly when
\* neither holds; a deployment that reports success had valid parameters,
\* wrote the artifact, created and executed a change set that lists the
\* target resource, and ended with ExecutionStatus AVAILABLE.
C5_FinalStatusCheck ==
    /\ Finished =>
          /\ resp.Status = "FAILED" =>
                pc = "failed" /\ error.kind = "ChangeSet execution FAILED"
          /\ (resp.Status # "FAILED" /\ resp.ExecutionStatus # "AVAILABLE") =>
                pc = "failed" /\ error.kind = "ChangeSet execution status"
          /\ (resp.Status # "FAILED" /\ resp.ExecutionStatus = "AVAILABLE") =>
                pc = "done" /\ error = NoError
    /\ pc = "done" =>
          /\ Finished
          /\ Defects(kwargs) = {}
          /\ Issued("put_object")
          /\ Issued("create_change_set")
          /\ Issued("execute_change_set")
          /\ HasMatch(first_desc.Changes, kwargs.SMResource)
          /\ resp.ExecutionStatus = "AVAILABLE"

C5_Witness == pc = "done" /\ error = NoError /\ Issued("execute_change_set")

\* C6: the second wait stops polling once it has seen a terminal status of
\* the execution (EXECUTE_COMPLETE or FAILED), and what it returns is a
\* description of the finished execution, not of the state before it.
C6_SecondWaitFollowsExecution ==
    /\ (pc = "wait_loop" /\ waitNo = 2
          /\ resp.Status \in {"EXECUTE_COMPLETE", "FAILED"}) => ENABLED WaitReturn
    /\ (pc = "final" /\ waitNo = 2) => resp.Status \in {"EXECUTE_COMPLETE", "FAILED"}

\* C7: in a wait the intervals slept are 2, 4, 8, ...; no description before
\* the last one received is terminal (CREATE_COMPLETE or FAILED), so nothing
\* is polled or slept after the first terminal one; and the description
\* returned is that last, terminal, one.
C7_BackoffAndStop ==
    /\ \A i \in 1..Len(sleeps) : sleeps[i] = Pow2(i)
    /\ \A i \in 1..(Len(descs) - 1) : descs[i].Status \notin {"CREATE_COMPLETE", "FAILED"}
    /\ pc = "wait_loop" =>
          /\ Len(descs) = Len(sleeps) + 1
          /\ resp = descs[Len(descs)]
          /\ sleep_time = Pow2(Len(descs))
    /\ pc \in {"validate", "final"} =>
          /\ Len(descs) = Len(sleeps) + 1
          /\ resp = descs[Len(descs)]
          /\ resp.Status \in {"CREATE_COMPLETE", "FAILED"}

\* a wait returned after sleeping 2, 4 and 8
C7_Witness == pc = "validate" /\ sleeps = << 2, 4, 8 >>

\* C8: the stack check succeeds exactly when some page of the listing holds
\* the target name; it reads the pages up to the first one that holds it,
\* and all of them when none does.
C8_StackFoundOnAnyPage ==
    pc # "StackName" =>
        LET hits == { i \in 1..Len(listing) : kwargs.StackName \in listing[i] }
            read == Cardinality({ i \in 1..Len(calls) : calls[i].op = "list_stacks" })
        IN  /\ (pc = "TemplateFileName") <=> (hits # {})
            /\ (pc = "failed") <=> (hits = {})
            /\ hits # {} => (read \in hits /\ \A i \in hits : read <= i)
            /\ hits = {} => read = Len(listing)

\* the stack was found on the last of three pages only
C8_Witness ==
    /\ pc = "TemplateFileName"
    /\ Len(listing) = 3
    /\ kwargs.StackName \notin listing[1] \cup listing[2]

OthersDefaulted(tp, p1, p2) == \A k \in DOMAIN tp \ {p1, p2} : tp[k] = "Default"

\* C9 as stated: the template check succeeds exactly when the template
\* declares both required names and every other declared parameter has a
\* default.
C9_Original ==
    pc # "TemplateFileName" =>
        ((pc = "S3KeyParameterName") <=>
            /\ kwargs.S3KeyParameterName \in DOMAIN template
            /\ kwargs.SMResourceParameterName \in DOMAIN template
            /\ OthersDefaulted(template, kwargs.S3KeyParameterName,
                               kwargs.SMResourceParameterName))

\* C9 as amended: the template check succeeds exactly when the two required
\* names are different, the template declares both, and every other declared
\* parameter has a default.
C9_TemplateCheck ==
    pc # "TemplateFileName" =>
        ((pc = "S3KeyParameterName") <=>
            /\ kwargs.S3KeyParameterName # kwargs.SMResourceParameterName
            /\ kwargs.S3KeyParameterName \in DOMAIN template
            /\ kwargs.SMResourceParameterName \in DOMAIN template
            /\ OthersDefaulted(template, kwargs.S3KeyParameterName,
                               kwargs.SMResourceParameterName))

\* the check passed a template with two other, defaulted, parameters
C9_Witness ==
    /\ pc = "S3KeyParameterName"
    /\ Cardinality(DOMAIN template) = 4

\* C10: the validation after the first wait raises the creation error when
\* Status is FAILED, whatever the changes; otherwise the scope error when no
\* change names SMResource; otherwise nothing.
C10_ValidationOutcome ==
    Validated =>
        /\ first_desc.Status = "FAILED" =>
              pc = "failed" /\ error.kind = "ChangeSet creation FAILED"
        /\ (first_desc.Status # "FAILED"
              /\ ~HasMatch(first_desc.Changes, kwargs.SMResource)) =>
              pc = "failed" /\ error.kind = "ChangeSet does not modify StateMachine"
        /\ (first_desc.Status # "FAILED"
              /\ HasMatch(first_desc.Changes, kwargs.SMResource)) =>
              error.kind \notin {"ChangeSet creation FAILED",
                                 "ChangeSet does not modify StateMachine"}

\* a non-empty Changes list without the target resource was rejected
C10_Witness ==
    /\ Validated
    /\ first_desc.Changes = << "OtherResource", "OtherResource" >>
    /\ first_desc.Status = "CREATE_COMPLETE"
    /\ error.kind = "ChangeSet does not modify StateMachine"

----------------------------------------------------------------------------
(* The order of the remote calls of one run *)

\* the mutating calls of the run, in the order they were issued
MutatingCalls == SelectSeq(calls, LAMBDA c : c.op \in MutatingOps)

OpsOf(s) == [i \in 1..Len(s) |-> s[i].op]

DeploymentOrder == << "put_object", "create_change_set", "execute_change_set" >>

IsPrefix(s, t) == Len(s) <= Len(t) /\ \A i \in 1..Len(s) : s[i] = t[i]

\* the calls issued after the last mutating call
SinceLastMutation ==
    LET last == { i \in 1..Len(calls) : calls[i].op \in MutatingOps }
        from == IF last = {} THEN 0 ELSE CHOOSE i \in last : \A j \in last : j <= i
    IN  SubSeq(calls, from + 1, Len(calls))

\* C11: in one run the mutating calls are a prefix of put_object,
\* create_change_set, execute_change_set, so each is issued at most once and
\* never out of order; from create_change_set on, the only other calls are
\* describe_change_set reads, one for each description a wait has received.
C11_MutatingCallsInOrder ==
    /\ IsPrefix(OpsOf(MutatingCalls), DeploymentOrder)
    /\ Issued("create_change_set") =>
          \A i \in 1..Len(SinceLastMutation) :
              SinceLastMutation[i].op = "describe_change_set"
    /\ pc = "wait_loop" => Len(SinceLastMutation) = Len(descs)

\* all three mutating calls were issued and the second wait has polled twice
C11_Witness ==
    /\ OpsOf(MutatingCalls) = DeploymentOrder
    /\ pc = "wait_loop"
    /\ waitNo = 2
    /\ Len(descs) >= 2

----------------------------------------------------------------------------
(* The arguments of the remote calls *)

\* C12: every put_object call that succeeds has written at the given Bucket
\* and Key with the storage tier given as S3StorageClass.
C12_StorageClassAsGiven ==
    \A i \in 1..Len(calls) :
        (calls[i].op = "put_object" /\ error.about # "put_object") =>
            /\ calls[i].Bucket = kwargs.Bucket
            /\ calls[i].Key = kwargs.Key
            /\ calls[i].StorageClass = kwargs.S3StorageClass

----------------------------------------------------------------------------
(* After a failure *)

CloudFormationOps ==
    {"list_stacks", "create_change_set", "describe_change_set", "execute_change_set"}

\* C13: once a run has failed it issues no further remote call of any kind,
\* and a run whose put_object failed has made no CloudFormation call.
C13_NoCallAfterFailure ==
    [][ /\ (error # NoError /\ history' = history) => calls' = calls
        /\ error' = Err("remote call failed", "put_object") =>
               \A i \in 1..Len(calls') : calls'[i].op \notin CloudFormationOps
      ]_vars

\* put_object failed in a second run, whose first run had failed as well
C13_Witness ==
    /\ error = Err("remote call failed", "put_object")
    /\ pc = "failed"
    /\ Len(history) = 1
    /\ history[1].pc = "failed"
    /\ calls[Len(calls)].op = "put_object"

----------------------------------------------------------------------------
(* The stack *)

\* the stack as it was when the current run started
StackAtStart == IF history = << >> THEN << >> ELSE history[Len(history)].stack

\* the run has ended with an exception raised before line 248
AbortedBeforeExecute ==
    /\ pc = "failed"
    /\ error.kind \notin {"ChangeSet execution FAILED", "ChangeSet execution status"}
    /\ error # Err("remote call failed", "execute_change_set")

\* C14: when a run aborts on a validation error, a failed put_object or
\* create_change_set, the creation error or the scope error, it has not
\* called execute_change_set, the stack is as it was when the run started,
\* and the change set the run created, if any, is un-executed and no part of
\* the stack.
C14_AbortLeavesStackUntouched ==
    AbortedBeforeExecute =>
        /\ ~Issued("execute_change_set")
        /\ stack = StackAtStart
        /\ change_set_id # 0 =>
              /\ ~changeSets[change_set_id].executed
              /\ changeSets[change_set_id].Status \in {"CREATE_COMPLETE", "FAILED"}
              /\ \A i \in 1..Len(stack) : stack[i] # change_set_id

\* the second run aborted on the scope error with its change set created,
\* on a stack the first run had updated
C14_Witness ==
    /\ AbortedBeforeExecute
    /\ error.kind = "ChangeSet does not modify StateMachine"
    /\ change_set_id = 2
    /\ changeSets[2].Status = "CREATE_COMPLETE"
    /\ stack = << 1 >>

----------------------------------------------------------------------------
(* Running the script again *)

\* the run follows a successful run with the same arguments, and the
\* platform has proposed no change for the change set the run created
RerunWithoutChange ==
    /\ history # << >>
    /\ history[Len(history)].pc = "done"
    /\ Validated
    /\ first_desc.Changes = << >>

\* the run has written the artifact again and created a change set of its
\* own, and has ended without calling execute_change_set
RepublishedNotExecuted ==
    /\ Issued("put_object")
    /\ Issued("create_change_set")
    /\ \A i \in 1..Len(history) : history[i].change_set_id # change_set_id
    /\ ~Issued("execute_change_set")
    /\ pc = "failed"

\* C15 as stated: a run that follows a successful run with the same
\* arguments, for which the platform proposes no change, writes the artifact
\* again, creates a new change set and fails at the scope check without
\* calling execute_change_set.
C15_Original ==
    RerunWithoutChange =>
        /\ RepublishedNotExecuted
        /\ error.kind = "ChangeSet does not modify StateMachine"

\* C15: such a run writes the artifact again, creates a new change set and
\* fails without calling execute_change_set: at the scope check when the new
\* change set has Status CREATE_COMPLETE, with the creation error when the
\* platform reports it as FAILED.
C15_RerunStopsAtValidation ==
    RerunWithoutChange =>
        /\ RepublishedNotExecuted
        /\ first_desc.Status # "FAILED" =>
               error = Err("ChangeSet does not modify StateMachine", kwargs.SMResource)
        /\ first_desc.Status = "FAILED" => error.kind = "ChangeSet creation FAILED"

\* the second run failed at the scope check after the first run's change
\* set had been executed to completion
C15_Witness ==
    /\ RerunWithoutChange
    /\ first_desc.Status = "CREATE_COMPLETE"
    /\ error.kind = "ChangeSet does not modify StateMachine"
    /\ changeSets[1].Status = "EXECUTE_COMPLETE"
    /\ change_set_id = 2

----------------------------------------------------------------------------
(* Requests with an empty string: update_workflow is entered with arguments *)
(* that are all valid but for one, which is the empty string               *)

\* the arguments the command line reads as free text (lines 277-286)
StringFields == Params \ {"S3StorageClass"}

InitEmpty ==
    /\ \E kw \in Requests({}), p \in StringFields : kwargs = [kw EXCEPT ![p] = ""]
    /\ template \in MainTemplates
    /\ listing = MainListing
    /\ pc = "Bucket"
    /\ error = NoError
    /\ calls = << >>
    /\ change_set_id = 0
    /\ resp = NoError
    /\ sleep_time = 0
    /\ sleeps = << >>
    /\ descs = << >>
    /\ waitNo = 0
    /\ first_desc = NoError
    /\ changeSets = << >>
    /\ stack = << >>
    /\ history = << >>
    /\ other = OtherIdle

SpecEmpty == InitEmpty /\ [][Next]_vars

\* C16: a request in which a string field is the empty string is rejected by
\* the validation, so neither put_object nor create_change_set is issued
\* for it.
C16_NoMutationOnEmptyField ==
    ((\E p \in StringFields : kwargs[p] = "") /\ error.kind # "remote call failed") =>
        /\ ~Issued("put_object")
        /\ ~Issued("create_change_set")

----------------------------------------------------------------------------
(* What create_change_set is told *)

\* the value the call passes for the template parameter of that name
ParameterPassed(call, name) ==
    { call.Parameters[k].ParameterValue :
        k \in { n \in 1..Len(call.Parameters) : call.Parameters[n].ParameterKey = name } }

\* C17: every create_change_set call passes, for the blob-key parameter,
\* the uri s3://<Bucket>/<Key> of the Bucket and Key that the put_object call
\* before it wrote to, and, for the resource parameter, SMResource, which is
\* the id the scope check looks for in the Changes.
C17_ParametersMatchPublication ==
    \A i \in 1..Len(calls) :
        calls[i].op = "create_change_set" =>
            /\ \E j \in 1..(i - 1) :
                  /\ calls[j].op = "put_object"
                  /\ S3Uri(calls[j].Bucket, calls[j].Key)
                        \in ParameterPassed(calls[i], kwargs.S3KeyParameterName)
            /\ Len(calls[i].Parameters) = 2
            /\ \A r \in ParameterPassed(calls[i], kwargs.SMResourceParameterName) :
                  /\ r = kwargs.SMResource
                  /\ error.kind = "ChangeSet does not modify StateMachine" =>
                        error.about = r /\ ~HasMatch(first_desc.Changes, r)
                  /\ Issued("execute_change_set") => HasMatch(first_desc.Changes, r)
            /\ ParameterPassed(calls[i], kwargs.SMResourceParameterName) # {}

\* the change set was created for the written artifact and executed
C17_Witness ==
    /\ Issued("put_object")
    /\ Issued("create_change_set")
    /\ Issued("execute_change_set")
    /\ HasMatch(first_desc.Changes, kwargs.SMResource)

----------------------------------------------------------------------------
(* Two deployments at once *)

\* every describe_change_set and execute_change_set call of the log names
\* the change set id
OwnIdOnly(log, id) ==
    \A i \in 1..Len(log) :
        log[i].op \in {"describe_change_set", "execute_change_set"} =>
            log[i].ChangeSetName = id /\ id \in DOMAIN changeSets

ExecuteIssuedIn(log) == \E i \in 1..Len(log) : log[i].op = "execute_change_set"

\* C18: each deployment describes and executes only the change set whose id
\* its own create_change_set call returned; the two deployments hold
\* different ids, and a change set is executed only by the deployment that
\* created it.
C18_OwnChangeSetOnly ==
    /\ OwnIdOnly(calls, change_set_id)
    /\ OwnIdOnly(other.calls, other.change_set_id)
    /\ (change_set_id # 0 /\ other.change_set_id # 0) =>
          change_set_id # other.change_set_id
    /\ \A id \in DOMAIN changeSets :
          changeSets[id].executed =>
              \/ id = change_set_id /\ ExecuteIssuedIn(calls)
              \/ id = other.change_set_id /\ ExecuteIssuedIn(other.calls)

\* the second deployment created its change set first and executed it while
\* the run was polling its own, which it then executed too
C18_Witness ==
    /\ other.change_set_id = 1
    /\ change_set_id = 2
    /\ ExecuteIssuedIn(other.calls)
    /\ ExecuteIssuedIn(calls)
    /\ changeSets[1].executed
    /\ changeSets[2].executed
    /\ Len(descs) >= 2

----------------------------------------------------------------------------
(* Polls and sleeps *)

\* the last remote call was a describe_change_set: a wait is under way or
\* was the last thing to call the platform
LastCallDescribes ==
    calls # << >> /\ calls[Len(calls)].op = "describe_change_set"

\* the describe_change_set calls issued before execute_change_set
PollsOfFirstWait ==
    { i \in 1..Len(calls) :
        /\ calls[i].op = "describe_change_set"
        /\ \E j \in (i + 1)..Len(calls) : calls[j].op = "execute_change_set" }

\* C19: a wait has issued one describe_change_set call more than it has
\* slept, with no sleep at all when the first description was terminal, and
\* in the second wait the intervals are 2, 4, 8, ... again, whatever the
\* first wait had reached.
C19_PollsAndSleeps ==
    LastCallDescribes =>
        /\ Len(SinceLastMutation) = Len(sleeps) + 1
        /\ Len(descs) = Len(sleeps) + 1
        /\ ~WaitContinues(descs[1]) => sleeps = << >>
        /\ waitNo = 2 =>
              /\ \A i \in 1..Len(sleeps) : sleeps[i] = Pow2(i)
              /\ sleep_time = Pow2(Len(sleeps) + 1)

\* the first wait slept twice, the second wait has slept for 2 and 4
C19_Witness ==
    /\ waitNo = 2
    /\ LastCallDescribes
    /\ Cardinality(PollsOfFirstWait) = 3
    /\ sleeps = << 2, 4 >>
    /\ sleep_time = 8

====
